---------------------------- MODULE Spec2Model ----------------------------
(***************************************************************************)
(* A state-machine model of the dremio-rs Flight SQL client                *)
(* (src/src/lib.rs): Client::new, Client::get_record_batches and           *)
(* Client::write_parquet, with the Flight SQL server, the local file       *)
(* system and the Parquet writer as a nondeterministic environment.        *)
(*                                                                         *)
(* Every `.await` and every fallible library call of the source is one     *)
(* step; the environment chooses the answer of each step.  A Rust panic    *)
(* (index out of bounds, Option::expect on None) ends the caller: the      *)
(* outcome is tagged "Panic" and the control state becomes "aborted".      *)
(***************************************************************************)
EXTENDS Integers, Sequences, FiniteSets

(* ------------------------------ bounds --------------------------------- *)

\* largest number of record batches one server stream yields
MaxStream == 2

\* largest number of endpoints in one FlightInfo descriptor
MaxEndpoints == 2

\* largest number of get_record_batches / write_parquet calls on the client
MaxCalls == 2

(* --------------------------- value universe ---------------------------- *)

NoTicket == "NoTicket"

Tickets == {"t1", "t2"}

\* FlightEndpoint.ticket is an Option<Ticket>
TicketOptions == Tickets \cup {NoTicket}

Endpoint(t) == [ticket |-> t]

\* FlightInfo.endpoint: a Vec<FlightEndpoint>, possibly empty
Descriptors ==
    UNION { [1..n -> {Endpoint(t) : t \in TicketOptions}] : n \in 0..MaxEndpoints }

\* A RecordBatch: a schema and its rows.
RecordBatches ==
    { [schema |-> "s1", rows |-> <<1>>],
      [schema |-> "s1", rows |-> <<2, 3>>],
      [schema |-> "s2", rows |-> <<4>>] }

NoBatch == [schema |-> "none", rows |-> <<>>]

\* What one `stream.next().await` can deliver: Some(Ok(batch)),
\* Some(Err(FlightError)) or None (end of stream).
BatchItem(b) == [kind |-> "batch", batch |-> b]
ErrItem == [kind |-> "err", batch |-> NoBatch]
EofItem == [kind |-> "eof", batch |-> NoBatch]

\* Result<_, DremioClientError>, plus the two non-values "None" (no call has
\* returned yet) and "Panic" (the call unwound instead of returning).
Ok(v) == [tag |-> "Ok", val |-> v, err |-> "none"]
Err(k) == [tag |-> "Err", val |-> <<>>, err |-> k]
Panic(m) == [tag |-> "Panic", val |-> <<>>, err |-> m]
None == [tag |-> "None", val |-> <<>>, err |-> "none"]

\* The file at `path`.  `rows` and `schema` are what a Parquet reader
\* recovers from it; only a finalized file (footer written) is readable.
AbsentFile == [exists |-> FALSE, finalized |-> FALSE, schema |-> "none", rows |-> <<>>]
OldFile == [exists |-> TRUE, finalized |-> TRUE, schema |-> "s0", rows |-> <<9>>]

\* std::fs::File::create: creates the file or truncates it to length zero
CreatedFile == [exists |-> TRUE, finalized |-> FALSE, schema |-> "none", rows |-> <<>>]

NoWriter == [open |-> FALSE, schema |-> "none", written |-> <<>>]

RECURSIVE Rows(_)
\* the rows of a batch sequence, concatenated in order
Rows(bs) == IF bs = <<>> THEN <<>> ELSE bs[1].rows \o Rows(Tail(bs))

RECURSIVE BatchesOf(_)
\* the record batches among the items a stream delivered, in order
BatchesOf(items) ==
    IF items = <<>> THEN <<>>
    ELSE IF items[1].kind = "batch"
         THEN <<items[1].batch>> \o BatchesOf(Tail(items))
         ELSE BatchesOf(Tail(items))

NumBatches(items) == Len(BatchesOf(items))

HasErr(items) == \E k \in 1..Len(items) : items[k].kind = "err"

Last(s) == s[Len(s)]

ExecReq == [req |-> "execute", ticket |-> NoTicket]
DoGetReq(t) == [req |-> "do_get", ticket |-> t]

(* ------------------------------- state --------------------------------- *)

VARIABLES
    pc,         \* where the caller is
    creds,      \* the user/pass given to Client::new
    channel,    \* the transport channel: "none" | "connected"
    handshaken, \* whether the server accepted a handshake on the channel
    client,     \* whether a Client value exists
    newResult,  \* what the last Client::new returned
    op,         \* the public operation in progress or last finished
    calls,      \* number of calls started on the client
    log,        \* requests the current call sent to the server, in order
    desc,       \* flight_info.endpoint of the current call
    batches,    \* the Vec<RecordBatch> being filled / handed to the writer
    streamed,   \* what the current call's stream delivered so far
    fetched,    \* what the current call's get_record_batches returned
    failedAt,   \* the step of the current call that failed, or "none"
    result,     \* what the current (or last) public call returned
    file,       \* the file at `path`
    file0,      \* the file at `path` when the current call started
    writer,     \* the ArrowWriter of the current write_parquet
    i,          \* index of the next batch the write loop hands to the writer
    prev        \* stream and fetch outcome of the last earlier call that streamed

vars == <<pc, creds, channel, handshaken, client, newResult, op, calls, log, desc,
          batches, streamed, fetched, failedAt, result, file, file0, writer, i, prev>>

sessionVars == <<creds, channel, handshaken, client, newResult>>
callVars == <<op, calls, log, desc, batches, streamed, fetched, failedAt, result,
              file0, writer, i, prev>>

NoPrev == [streamed |-> <<>>, fetched |-> None]

Init ==
    /\ pc = "start"
    /\ creds = "none"
    /\ channel = "none"
    /\ handshaken = FALSE
    /\ client = FALSE
    /\ newResult = None
    /\ op = "none"
    /\ calls = 0
    /\ log = <<>>
    /\ desc = <<>>
    /\ batches = <<>>
    /\ streamed = <<>>
    /\ fetched = None
    /\ failedAt = "none"
    /\ result = None
    /\ file \in {AbsentFile, OldFile}
    /\ file0 = file
    /\ writer = NoWriter
    /\ i = 1
    /\ prev = NoPrev

(* ---------------------------- Client::new ------------------------------ *)

\* lib.rs:107  Endpoint::from_shared(url)? -- a malformed URL fails before
\* any connection is attempted; otherwise connect() is awaited.
NewFromShared ==
    /\ pc = "start"
    /\ ~client
    /\ \E url \in {"wellformed", "malformed"}, c \in {"right", "wrong"} :
         IF url = "malformed"
         THEN /\ newResult' = Err("TonicError")
              /\ UNCHANGED <<pc, creds>>
         ELSE /\ pc' = "connecting"
              /\ creds' = c
              /\ newResult' = None
    /\ UNCHANGED <<channel, handshaken, client, file>>
    /\ UNCHANGED callVars

\* lib.rs:107  .connect().await?
NewConnect ==
    /\ pc = "connecting"
    /\ \E reachable \in BOOLEAN :
         IF reachable
         THEN /\ channel' = "connected"
              /\ pc' = "handshaking"
              /\ UNCHANGED <<creds, newResult>>
         ELSE /\ newResult' = Err("TonicError")
              /\ pc' = "start"
              /\ creds' = "none"
              /\ UNCHANGED channel
    /\ UNCHANGED <<handshaken, client, file>>
    /\ UNCHANGED callVars

\* the mutant of HandshakeSucceeded: the handshake's Result is dropped
HandshakeUnchecked(resp) == TRUE

\* lib.rs:108  client.handshake(user, pass).await?  -- `?` returns the error
HandshakeSucceeded(resp) == resp = "accept"

\* lib.rs:108-111  the handshake answer; Ok(Self {..}) only after it
NewHandshake ==
    /\ pc = "handshaking"
    /\ \E resp \in {"accept", "reject"} :
         /\ resp = "accept" => creds = "right"
         /\ handshaken' = (resp = "accept")
         /\ IF HandshakeSucceeded(resp)
            THEN /\ client' = TRUE
                 /\ newResult' = Ok(<<>>)
                 /\ pc' = "idle"
                 /\ UNCHANGED channel
            ELSE /\ client' = FALSE
                 /\ newResult' = Err("ArrowError")
                 /\ pc' = "start"
                 /\ channel' = "none"
    /\ creds' = "none"
    /\ UNCHANGED file
    /\ UNCHANGED callVars

(* ---------------------- Client::get_record_batches --------------------- *)

\* Where control goes when the inner get_record_batches returns `f`:
\* straight to the caller for get_record_batches; for write_parquet the `?`
\* of lib.rs:191 returns an Err to the caller, and an Ok goes on to
\* File::create (lib.rs:192).
Returned(f) ==
    /\ fetched' = f
    /\ IF op = "get" \/ f.tag = "Err"
       THEN /\ result' = f
            /\ pc' = "idle"
       ELSE /\ result' = result
            /\ pc' = "create"

\* A panic unwinds out of the public call: nothing is returned.
Panicked(m) ==
    /\ result' = Panic(m)
    /\ pc' = "aborted"

\* the stream and fetch outcome of the call that just ended, if it streamed
Remember == IF streamed # <<>> THEN [streamed |-> streamed, fetched |-> fetched] ELSE prev

\* lib.rs:144-147  entry of a call: execute(query) is sent and awaited
Begin(o) ==
    /\ pc = "idle"
    /\ client
    /\ calls < MaxCalls
    /\ op' = o
    /\ calls' = calls + 1
    /\ prev' = Remember
    /\ log' = <<ExecReq>>
    /\ desc' = <<>>
    /\ streamed' = <<>>
    /\ fetched' = None
    /\ failedAt' = "none"
    /\ result' = None
    /\ file0' = file
    /\ writer' = NoWriter
    /\ i' = 1
    /\ pc' = "execute"
    /\ UNCHANGED batches
    /\ UNCHANGED sessionVars

\* lib.rs:140  get_record_batches called by the user
CallGetRecordBatches ==
    /\ Begin("get")
    /\ UNCHANGED file

\* the mutant of CallWriteParquet: the target file is created before the fetch
CallWriteParquetCreatesFirst ==
    /\ Begin("write")
    /\ file' = CreatedFile

\* lib.rs:186-191  write_parquet called by the user: it starts with the fetch
CallWriteParquet ==
    /\ Begin("write")
    /\ UNCHANGED file

\* the mutant of TicketOf: the ticket of the last endpoint
TicketOfLast(d) == Last(d).ticket

\* lib.rs:148-149  flight_info.endpoint[0].ticket
TicketOf(d) == d[1].ticket

\* lib.rs:144-152  the answer to execute: `?` on Err; endpoint[0] panics on
\* an empty list, expect("Missing ticket") on None; else do_get(ticket) is
\* sent and awaited.
ExecuteReturns ==
    /\ pc = "execute"
    /\ \/ /\ failedAt' = "execute"
          /\ Returned(Err("ArrowError"))
          /\ UNCHANGED <<log, desc>>
       \/ \E d \in Descriptors :
            /\ desc' = d
            /\ IF d = <<>>
               THEN /\ Panicked("index out of bounds")
                    /\ failedAt' = "endpoint"
                    /\ UNCHANGED <<log, fetched>>
               ELSE IF TicketOf(d) = NoTicket
               THEN /\ Panicked("Missing ticket")
                    /\ failedAt' = "ticket"
                    /\ UNCHANGED <<log, fetched>>
               ELSE /\ log' = Append(log, DoGetReq(TicketOf(d)))
                    /\ pc' = "do_get"
                    /\ UNCHANGED <<failedAt, fetched, result>>
    /\ UNCHANGED <<op, calls, batches, streamed, file, file0, writer, i, prev>>
    /\ UNCHANGED sessionVars

\* the mutant of NewBatches: the vector of an earlier call is reused
KeepBatches == batches

\* lib.rs:153  let mut batches = Vec::new();
NewBatches == <<>>

\* lib.rs:152-153  the answer to do_get: `?` on Err, else the stream is open
DoGetReturns ==
    /\ pc = "do_get"
    /\ \/ /\ failedAt' = "do_get"
          /\ Returned(Err("ArrowError"))
          /\ UNCHANGED batches
       \/ /\ batches' = NewBatches
          /\ pc' = "stream"
          /\ UNCHANGED <<failedAt, fetched, result>>
    /\ desc' = <<>>
    /\ UNCHANGED <<op, calls, log, streamed, file, file0, writer, i, prev>>
    /\ UNCHANGED sessionVars

\* the mutant of Push: the batch is put in front
PushFront(bs, b) == <<b>> \o bs

\* lib.rs:156  batches.push(batch)
Push(bs, b) == Append(bs, b)

\* the mutant of OnItemErr: the batches collected so far are returned
OnItemErrPartial(bs) == Ok(bs)

\* lib.rs:156  `batch?` on Some(Err(e)): the error is returned, `batches` dropped
OnItemErr(bs) == Err("FlightError")

\* the mutant of OnEndOfStream: an empty result is reported as a failure
OnEndOfStreamNonEmpty(bs) == IF bs = <<>> THEN Err("FlightError") ELSE Ok(bs)

\* lib.rs:155,158  stream.next() gives None: the loop ends, Ok(batches)
OnEndOfStream(bs) == Ok(bs)

\* lib.rs:155-158  one stream.next().await and the loop body
StreamNext ==
    /\ pc = "stream"
    /\ \/ \E b \in RecordBatches :
            /\ NumBatches(streamed) < MaxStream
            /\ streamed' = Append(streamed, BatchItem(b))
            /\ batches' = Push(batches, b)
            /\ UNCHANGED <<pc, fetched, failedAt, result>>
       \/ /\ streamed' = Append(streamed, ErrItem)
          /\ failedAt' = "stream"
          /\ Returned(OnItemErr(batches))
          /\ UNCHANGED batches
       \/ /\ streamed' = Append(streamed, EofItem)
          /\ Returned(OnEndOfStream(batches))
          /\ failedAt' = IF OnEndOfStream(batches).tag = "Err" THEN "stream" ELSE failedAt
          /\ UNCHANGED batches
    /\ UNCHANGED <<op, calls, log, desc, file, file0, writer, i, prev>>
    /\ UNCHANGED sessionVars

(* ------------------------- Client::write_parquet ----------------------- *)

\* a public call returns `r` to the user
Finish(r) ==
    /\ result' = r
    /\ pc' = "idle"

\* lib.rs:192  std::fs::File::create(path)?  -- reached only with Ok(batches)
FileCreate ==
    /\ pc = "create"
    /\ \E ok \in BOOLEAN :
         IF ok
         THEN /\ file' = CreatedFile
              /\ pc' = "try_new"
              /\ UNCHANGED <<failedAt, result>>
         ELSE /\ failedAt' = "create"
              /\ Finish(Err("IoError"))
              /\ UNCHANGED file
    /\ UNCHANGED <<op, calls, log, desc, batches, streamed, fetched, file0, writer, i, prev>>
    /\ UNCHANGED sessionVars

\* lib.rs:193  batches[0].schema()
WriterSchema(bs) == bs[1].schema

\* the mutant of FirstIndex: the loop starts at the second batch
SecondIndex == 1 + 1

\* lib.rs:194  `for batch in batches` starts at the first batch
FirstIndex == 1

\* lib.rs:193  ArrowWriter::try_new(file, batches[0].schema(), None)?
\* batches[0] panics on an empty vector, after the file was created.
WriterTryNew ==
    /\ pc = "try_new"
    /\ IF batches = <<>>
       THEN /\ Panicked("index out of bounds")
            /\ failedAt' = "schema"
            /\ UNCHANGED <<writer, i>>
       ELSE \E ok \in BOOLEAN :
            IF ok
            THEN /\ writer' = [open |-> TRUE, schema |-> WriterSchema(batches),
                               written |-> <<>>]
                 /\ i' = FirstIndex
                 /\ pc' = "write"
                 /\ UNCHANGED <<failedAt, result>>
            ELSE /\ failedAt' = "try_new"
                 /\ Finish(Err("ParquetError"))
                 /\ UNCHANGED <<writer, i>>
    /\ UNCHANGED <<op, calls, log, desc, batches, streamed, fetched, file, file0, prev>>
    /\ UNCHANGED sessionVars

\* lib.rs:194-196  writer.write(&batch)? for the next batch: the writer
\* refuses a batch whose schema is not the writer's, and may fail on I/O.
WriterWrite ==
    /\ pc = "write"
    /\ i <= Len(batches)
    /\ \E ok \in BOOLEAN :
         IF ok /\ batches[i].schema = writer.schema
         THEN /\ writer' = [writer EXCEPT !.written = Append(@, batches[i])]
              /\ i' = i + 1
              /\ UNCHANGED <<pc, failedAt, result>>
         ELSE /\ failedAt' = "write"
              /\ Finish(Err("ParquetError"))
              /\ UNCHANGED <<writer, i>>
    /\ UNCHANGED <<op, calls, log, desc, batches, streamed, fetched, file, file0, prev>>
    /\ UNCHANGED sessionVars

\* what writer.close() leaves on disk: every written row group and the footer
Finalized(w) ==
    [exists |-> TRUE, finalized |-> TRUE, schema |-> w.schema, rows |-> Rows(w.written)]

\* lib.rs:197-198  the loop is over: writer.close()?; Ok(())
WriterClose ==
    /\ pc = "write"
    /\ i > Len(batches)
    /\ \E ok \in BOOLEAN :
         IF ok
         THEN /\ file' = Finalized(writer)
              /\ Finish(Ok(<<>>))
              /\ UNCHANGED failedAt
         ELSE /\ failedAt' = "close"
              /\ Finish(Err("ParquetError"))
              /\ UNCHANGED file
    /\ writer' = [writer EXCEPT !.open = FALSE]
    /\ UNCHANGED <<op, calls, log, desc, batches, streamed, fetched, file0, i, prev>>
    /\ UNCHANGED sessionVars

(* --------------------------- specification ----------------------------- *)

Next ==
    \/ NewFromShared
    \/ NewConnect
    \/ NewHandshake
    \/ CallGetRecordBatches
    \/ CallWriteParquet
    \/ ExecuteReturns
    \/ DoGetReturns
    \/ StreamNext
    \/ FileCreate
    \/ WriterTryNew
    \/ WriterWrite
    \/ WriterClose

Spec == Init /\ [][Next]_vars

(* ------------------------------ properties ----------------------------- *)

\* the current call has come back to the user, by a return or by a panic
CallOver == calls > 0 /\ pc \in {"idle", "aborted"}

\* C1: all-or-nothing fetch.  Once the stream has delivered an error item,
\* nothing more is pulled from it (the error is the last item delivered and
\* the loop is left), and the call returns exactly the one error value,
\* which carries none of the batches appended before the error.
C1_AllOrNothing ==
    HasErr(streamed) =>
        /\ pc # "stream"
        /\ Last(streamed).kind = "err"
        /\ Cardinality({k \in 1..Len(streamed) : streamed[k].kind = "err"}) = 1
        /\ fetched = Err("FlightError")
        /\ fetched.val = <<>>
        /\ result = fetched

\* a stream failed after at least one batch had been appended
C1_Witness ==
    /\ HasErr(streamed)
    /\ NumBatches(streamed) >= 1
    /\ result.tag = "Err"

\* C2: order-preserving, lossless fetch.  Whenever get_record_batches
\* returns Ok, the stream ended with end-of-stream and the returned sequence
\* is exactly the sequence of batches the stream yielded, in order.
C2_OrderPreserving ==
    fetched.tag = "Ok" =>
        /\ Last(streamed).kind = "eof"
        /\ Len(fetched.val) = NumBatches(streamed)
        /\ fetched.val = BatchesOf(streamed)
        /\ op = "get" => result = fetched

\* get_record_batches returned two different batches
C2_Witness ==
    /\ op = "get"
    /\ result.tag = "Ok"
    /\ Len(result.val) >= 2
    /\ result.val[1] # result.val[2]

\* C3 (as claimed): write_parquet on a stream of zero batches ends in Ok or
\* in an error value, never in an out-of-range access on the empty sequence.
C3_EmptyWriteNeverPanics ==
    (op = "write" /\ streamed = <<EofItem>> /\ CallOver) => result.tag \in {"Ok", "Err"}

\* the execute answer of the current call was a descriptor with no endpoint,
\* or one whose first endpoint has no ticket
MalformedDescriptor ==
    /\ CallOver
    /\ Len(log) = 1
    /\ failedAt # "execute"
    /\ desc = <<>> \/ desc[1].ticket = NoTicket

\* C4 (as claimed): on a descriptor with zero endpoints, or whose first
\* endpoint has no ticket, the call returns an error value.
C4_MalformedDescriptorIsError ==
    MalformedDescriptor => result.tag = "Err"

\* C5: an empty result is a success.  When the stream ends cleanly after
\* zero batches, get_record_batches returns Ok with the empty sequence; it
\* returns an error only if execute, do_get or a streamed item failed.
C5_EmptyIsSuccess ==
    op = "get" =>
        /\ (streamed = <<EofItem>>) => result = Ok(<<>>)
        /\ result.tag = "Err" =>
              /\ failedAt \in {"execute", "do_get", "stream"}
              /\ failedAt = "stream" => HasErr(streamed)

\* get_record_batches returned on a stream that ended without a batch
C5_Witness ==
    /\ op = "get"
    /\ streamed = <<EofItem>>
    /\ result.tag = "Ok"

\* C6: no half-open session.  A Client exists only on a connected channel on
\* which the server accepted the handshake; a failed Client::new leaves no
\* Client; and every request of a call was sent after that handshake.
C6_NoHalfOpenSession ==
    /\ client => (channel = "connected" /\ handshaken /\ newResult.tag = "Ok")
    /\ newResult.tag = "Err" => ~client
    /\ log # <<>> => (client /\ handshaken)
    /\ pc \notin {"start", "connecting", "handshaking"} => client

\* a do_get request is in flight on an established session
C6_Witness ==
    /\ pc = "do_get"
    /\ Len(log) = 2
    /\ handshaken

\* C7: a successful write_parquet leaves a complete, finalized file.  The
\* writer was opened with the schema of the first fetched batch, was handed
\* every fetched batch once in arrival order and was closed, and the file
\* reads back as the rows of the fetched sequence.
C7_WriteRoundTrip ==
    (op = "write" /\ result.tag = "Ok") =>
        /\ fetched.tag = "Ok"
        /\ fetched.val = BatchesOf(streamed)
        /\ writer.written = fetched.val
        /\ writer.schema = fetched.val[1].schema
        /\ ~writer.open
        /\ file.exists /\ file.finalized
        /\ file.schema = fetched.val[1].schema
        /\ file.rows = Rows(fetched.val)

\* write_parquet succeeded on two different batches, over an older file
C7_Witness ==
    /\ op = "write"
    /\ result.tag = "Ok"
    /\ Len(fetched.val) >= 2
    /\ fetched.val[1] # fetched.val[2]
    /\ file0 = OldFile

\* C8: no state bleed between serialized calls.  When the stream of the
\* current call delivered exactly what the stream of an earlier call on the
\* same client delivered, the two fetches returned the same value; nothing
\* an earlier call collected or raised shows in the later one.
C8_NoStateBleed ==
    (fetched.tag # "None" /\ streamed # <<>> /\ prev.streamed = streamed) =>
        fetched = prev.fetched

\* two calls on one client were answered with the same non-empty stream
C8_Witness ==
    /\ calls = 2
    /\ fetched.tag = "Ok"
    /\ Len(fetched.val) >= 1
    /\ prev.streamed = streamed

\* C9: single-endpoint, no-retry protocol.  A call sends one execute, then
\* at most one do_get, whose ticket is that of the first endpoint of the
\* descriptor; no do_get follows a failed execute (or a descriptor that has
\* no usable first ticket) and nothing is sent again after a failure.
C9_SingleEndpointNoRetry ==
    /\ Len(log) <= 2
    /\ calls > 0 => (Len(log) >= 1 /\ log[1] = ExecReq)
    /\ pc = "execute" => log = <<ExecReq>>
    /\ Len(log) = 2 => (log[2].req = "do_get" /\ log[2].ticket \in Tickets)
    /\ pc = "do_get" => log = <<ExecReq, DoGetReq(desc[1].ticket)>>
    /\ failedAt \in {"execute", "endpoint", "ticket"} => log = <<ExecReq>>
    /\ failedAt \in {"do_get", "stream"} => Len(log) = 2

\* do_get was sent for a descriptor whose second endpoint has another ticket
C9_Witness ==
    /\ pc = "do_get"
    /\ Len(desc) = 2
    /\ desc[2].ticket \in Tickets
    /\ desc[1].ticket # desc[2].ticket

\* C10: write_parquet touches the file only after the whole fetch succeeded.
\* While the fetch runs, and when execute, do_get or a streamed item fails,
\* the file is what it was when the call started and the fetch error is
\* what is returned; a failure to open the writer or to write a batch
\* leaves the created, non-finalized file.
C10_FileTouchedAfterFetch ==
    op = "write" =>
        /\ pc \in {"execute", "do_get", "stream", "create"} => file = file0
        /\ failedAt \in {"execute", "do_get", "stream"} =>
              (file = file0 /\ result.tag = "Err" /\ result = fetched)
        /\ file # file0 => fetched.tag = "Ok"
        /\ failedAt \in {"try_new", "write"} =>
              (file = CreatedFile /\ result.tag = "Err")

\* a write_parquet whose stream failed left alone the non-finalized file that
\* an earlier, failed write_parquet had left behind
C10_Witness ==
    /\ op = "write"
    /\ calls = 2
    /\ failedAt = "stream"
    /\ NumBatches(streamed) >= 1
    /\ file0 = CreatedFile
    /\ file = file0

=============================================================================
